---------------------------- MODULE Spec2Model ----------------------------
(***************************************************************************)
(* Trial-timing scheduler of tsalo/localizer-task.                         *)
(*                                                                         *)
(* Times are integers in hundredths of a second for                        *)
(* generate_config_files.py (the code rounds every sampled duration and    *)
(* ITI to one decimal, and writes the schedule with one decimal) and in    *)
(* tenths of a millisecond for combined_task.py (tolerance 0.001 s).       *)
(*                                                                         *)
(* A behaviour is one run of one entry point, chosen by Init (prog):       *)
(*   "sequencer"  randomize_carefully(elems, n_repeat) on its own          *)
(*   "generate"   generate_config_files.determine_timing(ttype, seed),      *)
(*                called twice with the same arguments; the schedule is     *)
(*                then loaded and shuffled by localizer_task.py             *)
(*   "combined"   combined_task.trial_duration_and_iti(...)                 *)
(*   "polling"    the trial loop of localizer_task.py with the polling      *)
(*                loops of draw and flash_stimuli and the keyboard buffer   *)
(***************************************************************************)
EXTENDS Integers, Sequences, FiniteSets, TLC

VARIABLES
    prog,       \* which entry point this behaviour runs
    pc,         \* position in the running code
    py_random,  \* state of Python's global `random` generator:
                \* <<>> = unknown (a draw can return any value),
                \* <<r>> = one concrete stream
    elems,      \* randomize_carefully: argument elems
    n_repeat,   \* randomize_carefully: argument n_repeat
    res,        \* randomize_carefully: local res
    n,          \* randomize_carefully: loop variable of `for n in range(n_repeat)`
    rc_ret,     \* where randomize_carefully returns to
    np_random,  \* state of numpy's global generator (as py_random)
    ttype,      \* determine_timing: argument ttype
    seed,       \* determine_timing / estimation_timing: seed (NoSeed = None)
    audio_files,\* determine_timing: the repeated and shuffled audio list
    durations,  \* estimation_timing: durations / detection_timing: durs
    itis,       \* estimation_timing / detection_timing: itis
    timing_df,  \* the schedule: a sequence of rows
    possible_itis, \* estimation_timing: the cropped pool of candidate ITIs
    missing_time,  \* estimation_timing: missing_time
    attempts,   \* estimation_timing: iterations of the rejection loop so far
    call,       \* number of the running call of determine_timing (1 or 2)
    seed_arg,   \* the seed both calls are given
    first_df,   \* the schedule the first call returned
    config_df,  \* localizer_task: config_df
    shuffle_idx,\* localizer_task: shuffle_idx of the last shuffled column
    trial_num,  \* localizer_task: position of trial_num in config_df.index
    routine_clock, \* localizer_task: routine_clock.getTime()
    frame_lag,  \* localizer_task: time by which a busy loop overruns
    presented,  \* localizer_task: the stimulus and rest periods drawn so far
    data_set,   \* localizer_task: data_set, a list of values per column
    outfile,    \* localizer_task: the rows of the output file on disk
    run_duration,  \* localizer_task: RUN_DURATION as the module is configured
    event_buffer,  \* psychopy.event: the key presses not yet fetched,
                   \* each <<key, time on trial_clock>>
    n_presses,  \* number of keys pressed since the run started
    presses,    \* number of '1'/'2' presses made in the current trial, from
                \* the start of its stimulus to the end of its rest
    pressed_hist,  \* presses of every completed trial
    task_keys,  \* localizer_task: task_keys
    iti_keys,   \* localizer_task: iti_keys
    routine,    \* the running stimulus routine: "draw" or "flash"
    draw_call,  \* which call it is: "task" (stimulus) or "iti" (rest)
    draw_duration, \* draw / flash_stimuli: argument duration
    start_time, \* draw / flash_stimuli: start_time
    this_start, \* flash_stimuli: _this_start
    trial_start,   \* the time of the last trial_clock.reset()
    ct_args,    \* trial_duration_and_iti: dur_range, iti_range, n_trials, n_conds
    trial_durs, \* trial_duration_and_iti: trial_durs
    trial_itis, \* trial_duration_and_iti: trial_itis
    missing_time_per_cond, \* trial_duration_and_iti: missing_time_per_cond
    all_cond_trial_durs,   \* trial_duration_and_iti: all_cond_trial_durs
    all_cond_trial_itis,   \* trial_duration_and_iti: all_cond_trial_itis
    task_time,  \* generate_config_files: TASK_TIME as the module is configured
    audio_pool  \* generate_config_files: _AUDIO_FILES as the module is configured

rcVars == <<elems, n_repeat, res, n, rc_ret>>
estVars == <<possible_itis, missing_time, attempts>>
runVars == <<trial_num, routine_clock, frame_lag, presented, data_set, outfile>>
pollVars == <<event_buffer, n_presses, presses, pressed_hist, task_keys, iti_keys,
              routine, draw_call, draw_duration, start_time, this_start,
              trial_start>>
locVars == <<config_df, shuffle_idx, runVars>>
ctVars == <<ct_args, trial_durs, trial_itis, missing_time_per_cond,
            all_cond_trial_durs, all_cond_trial_itis>>
genVars == <<np_random, ttype, seed, audio_files, durations, itis, timing_df,
             possible_itis, missing_time, attempts, call, seed_arg, first_df,
             config_df, shuffle_idx, runVars, ct_args, trial_durs, trial_itis,
             missing_time_per_cond, all_cond_trial_durs, all_cond_trial_itis>>
vars == <<prog, pc, py_random, elems, n_repeat, res, n, rc_ret, np_random,
          ttype, seed, audio_files, durations, itis, timing_df,
          possible_itis, missing_time, attempts, call, seed_arg, first_df,
          config_df, shuffle_idx, ct_args, trial_durs, trial_itis,
          missing_time_per_cond, all_cond_trial_durs, all_cond_trial_itis,
          task_time, audio_pool, runVars, pollVars, run_duration>>

---------------------------------------------------------------------------
(* Bounds of the model *)

\* randomize_carefully on its own: conditions are drawn from 1..MaxConds
MaxConds == 3
\* randomize_carefully on its own: n_repeat is drawn from 0..MaxRepeat
MaxRepeat == 3
\* concrete generator streams are the residues modulo RngMod
RngMod == 61
\* a seeded generator starts in one of the states 0..MaxRngSeed
MaxRngSeed == 1
\* the rejection loop of estimation_timing is followed for MaxAttempts iterations
MaxAttempts == 2

---------------------------------------------------------------------------
(* Sequences *)

Range(s) == {s[i] : i \in DOMAIN s}

Count(s, x) == Cardinality({i \in DOMAIN s : s[i] = x})

Last(s) == s[Len(s)]

\* the sequence s, enumerated element by element
Elements(s) == SubSeq(s, 1, Len(s))

\* s[lo] + ... + s[hi], summed by halves
RECURSIVE SumRange(_, _, _)
SumRange(s, lo, hi) ==
    IF lo > hi THEN 0
    ELSE IF lo = hi THEN s[lo]
    ELSE SumRange(s, lo, (lo + hi) \div 2) + SumRange(s, (lo + hi) \div 2 + 1, hi)

SumSeq(s) == SumRange(s, 1, Len(s))

\* list(S) of a set of integers, in ascending order
RECURSIVE SortedList(_)
SortedList(S) ==
    IF S = {} THEN <<>>
    ELSE LET m == CHOOSE x \in S : \A y \in S : x <= y
         IN  <<m>> \o SortedList(S \ {m})

NoAdjacentEqual(s) == \A i \in 1..(Len(s) - 1) : s[i] # s[i + 1]

---------------------------------------------------------------------------
(* Python's `random` module *)

\* the k-th value after state r of a concrete stream
\* one step of the stream is r -> (3 * r + 1) % RngMod; k steps are the map
\* r -> (a * r + b) % RngMod with <<a, b>> = Steps(k)
RECURSIVE Steps(_)
Steps(k) ==
    IF k <= 0 THEN <<1, 0>>
    ELSE IF k % 2 = 1
         THEN LET h == Steps(k - 1)
              IN  <<(3 * h[1]) % RngMod, (3 * h[2] + 1) % RngMod>>
         ELSE LET h == Steps(k \div 2)
              IN  <<(h[1] * h[1]) % RngMod, (h[1] * h[2] + h[2]) % RngMod>>

Stream(r, k) == (Steps(k)[1] * r + Steps(k)[2]) % RngMod

\* the generator after k draws
RngAfter(g, k) == IF g = <<>> THEN g ELSE <<Stream(g[1], k)>>

\* random.shuffle(x) draws j = randbelow(i + 1) for i = len(x)-1 .. 1:
\* the draw vectors the generator g can deliver for a list of m elements
ShuffleDraws(g, m) ==
    IF g = <<>>
    THEN {f \in [1..(m - 1) -> 0..(m - 1)] : \A i \in 1..(m - 1) : f[i] <= i}
    ELSE {[i \in 1..(m - 1) |-> Stream(g[1], m - i) % (i + 1)]}

Swap(x, i, j) == [x EXCEPT ![i] = x[j], ![j] = x[i]]

\* the swaps of the loop for i = hi down to lo: the upper half of the
\* iterations, then the lower half
RECURSIVE FisherYates(_, _, _, _)
FisherYates(x, lo, hi, f) ==
    IF lo > hi \/ hi >= Len(x) THEN x
    ELSE IF lo = hi THEN Swap(x, hi + 1, f[hi] + 1)
    ELSE FisherYates(FisherYates(x, (lo + hi) \div 2 + 1, hi, f),
                     lo, (lo + hi) \div 2, f)

\* random.shuffle(x) with the draws f
Shuffle(x, f) == FisherYates(x, 1, Len(x) - 1, f)

\* random.sample(population, len(population)) draws j = randbelow(m - i) for
\* i = 0 .. m-1, takes pool[j] and moves pool[m-i-1] into its place
SampleDraws(g, m) ==
    IF g = <<>>
    THEN {f \in [0..(m - 1) -> 0..(m - 1)] : \A i \in 0..(m - 1) : f[i] < m - i}
    ELSE {[i \in 0..(m - 1) |-> Stream(g[1], i + 1) % (m - i)]}

RECURSIVE SamplePool(_, _, _, _)
SamplePool(pool, i, f, acc) ==
    IF i >= Len(pool) THEN acc
    ELSE SamplePool([pool EXCEPT ![f[i] + 1] = pool[Len(pool) - i]], i + 1, f,
                    Append(acc, pool[f[i] + 1]))

Sample(population, f) == SamplePool(population, 0, f, <<>>)

---------------------------------------------------------------------------
(* Constants of generate_config_files.py (times in hundredths of a second) *)

_AUDIO_FILES ==
    << "Ambush_in_Rattlesnake_Gulch", "Bleu", "Bollywood_Groove",
       "Breaking_Bollywood", "Coy_Koi", "Cumbish", "Desert_Conflict",
       "Funshine", "Improv_for_Evil", "Jack_The_Lumberer", "Le_Baguette",
       "Shenzhen_Nightlife", "Stereotype_News", "Ukulele_Song" >>

\* a trial type is its label split at "/"
TRIAL_DICT ==
    [k \in 1..4 |->
        CASE k = 1 -> <<"visual">>
          [] k = 2 -> <<"visual", "auditory">>
          [] k = 3 -> <<"motor">>
          [] k = 4 -> <<"motor", "auditory">>]

N_CONDS == Cardinality(DOMAIN TRIAL_DICT)
N_BLOCKS == 4
N_TRIALS == 15
DUR_RANGE == <<50, 400>>
ITI_RANGE == <<200, 800>>
TASK_TIME == 43800
START_DUR == 600
END_DUR == 600

\* Python's None
None == "None"

\* `word in label` for a label of TRIAL_DICT
Contains(label, word) == \E i \in DOMAIN label : label[i] = word

\* int(np.ceil(a / b))
CeilDiv(a, b) == (a + b - 1) \div b

\* np.repeat(np.arange(m), reps)
Repeat(m, reps) == [k \in 1..(m * reps) |-> (k - 1) \div reps]

---------------------------------------------------------------------------
(* generate_config_files.randomize_carefully *)

\* lst[1:] = random.sample(lst[1:], len(lst)-1)
ReshuffleTail(lst, f2) == <<Head(lst)>> \o Sample(Tail(lst), f2)

\* LaterPass without `lst.append(res[-1])`: the avoided element is never put back
LaterPass_NoAppend(s, r, f1, f2) == Shuffle(SortedList(s \ {Last(r)}), f1)

\* LaterPass avoiding res[0] instead of res[-1]
LaterPass_AvoidFirst(s, r, f1, f2) ==
    ReshuffleTail(Append(Shuffle(SortedList(s \ {r[1]}), f1), r[1]), f2)

\* the list a later pass (res non-empty) appends, with shuffle draws f1 and
\* sample draws f2
LaterPass(s, r, f1, f2) ==
    ReshuffleTail(Append(Shuffle(SortedList(s \ {Last(r)}), f1), Last(r)), f2)

\* one iteration of `for n in range(n_repeat)`
RCPass ==
    /\ pc = "rc_loop"
    /\ n < n_repeat
    /\ IF res # <<>>
       THEN LET s == Range(elems)
                m == Cardinality(s \ {Last(res)})
            IN  \E f1 \in ShuffleDraws(py_random, m) :
                \E f2 \in SampleDraws(RngAfter(py_random, m - 1), m) :
                    /\ res' = res \o LaterPass(s, res, f1, f2)
                    /\ py_random' = RngAfter(py_random, (m - 1) + m)
       ELSE \E f \in ShuffleDraws(py_random, Len(elems)) :
                /\ res' = res \o Shuffle(elems, f)
                /\ py_random' = RngAfter(py_random, Len(elems) - 1)
    /\ n' = n + 1
    /\ UNCHANGED <<prog, pollVars, run_duration, task_time, audio_pool, pc, elems, n_repeat, rc_ret>>
    /\ UNCHANGED genVars

\* the loop is over: return res
RCReturn ==
    /\ pc = "rc_loop"
    /\ n >= n_repeat
    /\ pc' = rc_ret
    /\ UNCHANGED <<prog, pollVars, run_duration, task_time, audio_pool, py_random, elems, n_repeat, res, n, rc_ret>>
    /\ UNCHANGED genVars

---------------------------------------------------------------------------
(* generate_config_files.detection_timing *)

\* TimingDf filling the iti column from the durations
TimingDf_ItiFromDurs(durs, its, types) ==
    [k \in 1..Len(durs) |->
        [duration |-> durs[k], iti |-> durs[k], trial_type |-> TRIAL_DICT[types[k]]]]

\* the DataFrame built from the three columns
TimingDf(durs, its, types) ==
    [k \in 1..Len(durs) |->
        [duration |-> durs[k], iti |-> its[k], trial_type |-> TRIAL_DICT[types[k]]]]

\* block_dur = 14, rest_dur = 14
BLOCK_DUR == 1400
REST_DUR == 1400

\* DetectionDurs without `* N_BLOCKS`
DetectionDurs_NoBlocks == [k \in 1..N_CONDS |-> BLOCK_DUR]

\* durs = [block_dur] * N_BLOCKS * N_CONDS
DetectionDurs == [k \in 1..(N_BLOCKS * N_CONDS) |-> BLOCK_DUR]

\* itis = [rest_dur] * N_BLOCKS * N_CONDS
DetectionItis == [k \in 1..(N_BLOCKS * N_CONDS) |-> REST_DUR]

\* durs, itis, and the call of randomize_carefully(list(TRIAL_DICT.keys()), N_BLOCKS)
DetectionTiming ==
    /\ pc = "det_start"
    /\ durations' = DetectionDurs
    /\ itis' = DetectionItis
    /\ elems' = SortedList(DOMAIN TRIAL_DICT)
    /\ n_repeat' = N_BLOCKS
    /\ res' = <<>>
    /\ n' = 0
    /\ rc_ret' = "det_df"
    /\ pc' = "rc_loop"
    /\ UNCHANGED <<prog, pollVars, run_duration, task_time, audio_pool, py_random, np_random, ttype, seed, audio_files,
                   timing_df, call, seed_arg, first_df>>
    /\ UNCHANGED estVars
    /\ UNCHANGED locVars
    /\ UNCHANGED ctVars

\* trial_types, timing_info, timing_df; return
DetectionDf ==
    /\ pc = "det_df"
    /\ timing_df' = TimingDf(durations, itis, res)
    /\ pc' = "dt_assign"
    /\ UNCHANGED <<prog, pollVars, run_duration, task_time, audio_pool, py_random, np_random, ttype, seed, audio_files,
                   durations, itis, call, seed_arg, first_df>>
    /\ UNCHANGED estVars
    /\ UNCHANGED rcVars
    /\ UNCHANGED locVars
    /\ UNCHANGED ctVars

---------------------------------------------------------------------------
(* generate_config_files.estimation_timing *)

\* np.finfo(dtype='float64').max: larger than every time of the model
FLOAT_MAX == 2147483647

\* the absolute tolerance of the loop test, atol=10 (seconds)
ATOL == 1000

Abs(x) == IF x < 0 THEN -x ELSE x

\* np.isclose(a, 0.0, atol=atol): |a - 0.0| <= atol + rtol * |0.0|
IsCloseToZero(a, atol) == Abs(a) <= atol

\* the multiple of 0.1 s nearest to x, in tenths of a second (a tie goes to
\* the even one)
NearestTenth(x) ==
    LET q == x \div 10
        r == x % 10
    IN  IF r < 5 THEN q
        ELSE IF r > 5 THEN q + 1
        ELSE IF q % 2 = 0 THEN q ELSE q + 1

\* Round1 without the rounding
Round1_Skipped(x) == x

\* np.round(x, 1)
Round1(x) == 10 * NearestTenth(x)

\* gumbel_r.rvs(size=100000, loc=4., scale=1): with 100000 draws the values
\* fill the range from about 1.6 s to about 15 s
GumbelDraws == 160..1500

\* possible_itis = np.round(raw_itis, 1)
RawItis == {Round1(x) : x \in GumbelDraws}

\* possible_itis[possible_itis >= 2], then [possible_itis <= 8]
Crop(raw) == {x \in raw : x >= ITI_RANGE[1] /\ x <= ITI_RANGE[2]}

SetMin(S) == CHOOSE x \in S : \A y \in S : x <= y
SetMax(S) == CHOOSE x \in S : \A y \in S : x >= y

N_TRIALS_TOTAL == N_TRIALS * N_CONDS

\* state.uniform(DUR_RANGE[0], DUR_RANGE[1], N_TRIALS_TOTAL) of a fresh
\* RandomState: the vectors the model draws alternate two values
DurDraws == {<<212, 209>>, <<207, 231>>, <<226, 234>>, <<DUR_RANGE[1], DUR_RANGE[2]>>}

\* durations = np.round(durations, 1)
DurationSamples ==
    {[k \in 1..N_TRIALS_TOTAL |-> Round1(IF k % 2 = 1 THEN d[1] ELSE d[2])] :
        d \in DurDraws}

\* state.choice(possible_itis, size=N_TRIALS_TOTAL, replace=True): the vectors
\* the model draws hold one value, and another one in the last place
ItiDraws(pool) == {SetMin(pool), SetMax(pool)} \cup (pool \cap {500, 700})
ItiSamples(pool) ==
    {[k \in 1..N_TRIALS_TOTAL |-> IF k = N_TRIALS_TOTAL THEN iLast ELSE i] :
        i \in {SetMax(pool)} \cup (pool \cap {500}), iLast \in ItiDraws(pool)}

\* TASK_TIME - np.sum(durations + itis)
MissingTime(durs, its) ==
    task_time - SumSeq([k \in DOMAIN durs |-> durs[k] + its[k]])

\* LoopTest without `or (missing_time < 0)`
LoopTest_NoSign(missing) == ~IsCloseToZero(missing, ATOL)

\* the test of the while loop
LoopTest(missing) == (~IsCloseToZero(missing, ATOL)) \/ (missing < 0)

\* seed=None: no seed is given
NoSeed == -1

\* the candidate pool, N_TRIALS_TOTAL, missing_time and the default seed
EstimationStart ==
    /\ pc = "est_start"
    /\ possible_itis' = Crop(RawItis)
    /\ missing_time' = FLOAT_MAX
    /\ attempts' = 0
    /\ IF seed \in {NoSeed, 0}
       THEN \* np.random.randint(1000, 9999)
            /\ seed' = 1000 + (Stream(np_random[1], 2) % (9999 - 1000))
            /\ np_random' = RngAfter(np_random, 2)
       ELSE /\ seed' = seed
            /\ np_random' = RngAfter(np_random, 1)
    /\ pc' = "est_loop"
    /\ UNCHANGED <<prog, pollVars, run_duration, task_time, audio_pool, py_random, ttype, audio_files, durations, itis,
                   timing_df, call, seed_arg, first_df>>
    /\ UNCHANGED rcVars
    /\ UNCHANGED locVars
    /\ UNCHANGED ctVars

\* one iteration of the rejection loop
EstimationAttempt ==
    /\ pc = "est_loop"
    /\ LoopTest(missing_time)
    /\ attempts < MaxAttempts
    /\ \E durs \in DurationSamples : \E its \in ItiSamples(possible_itis) :
        /\ durations' = durs
        /\ itis' = its
        /\ missing_time' = MissingTime(durs, its)
    /\ seed' = seed + 1
    /\ attempts' = attempts + 1
    /\ UNCHANGED <<prog, pollVars, run_duration, task_time, audio_pool, pc, py_random, np_random, ttype, audio_files,
                   timing_df, possible_itis, call, seed_arg, first_df>>
    /\ UNCHANGED rcVars
    /\ UNCHANGED locVars
    /\ UNCHANGED ctVars

\* the loop test fails: the sample is accepted
EstimationAccept ==
    /\ pc = "est_loop"
    /\ ~LoopTest(missing_time)
    /\ pc' = "est_fill"
    /\ UNCHANGED <<prog, pollVars, run_duration, task_time, audio_pool, py_random>>
    /\ UNCHANGED rcVars
    /\ UNCHANGED genVars

\* FillLast without `itis[-1] += missing_time`
FillLast_Skipped(its, missing) == its

\* FillLast adding the missing time to the first one
FillLast_First(its, missing) == [its EXCEPT ![1] = @ + missing]

\* FillLast taking the missing time from the last one
FillLast_Subtracted(its, missing) == [its EXCEPT ![Len(its)] = @ - missing]

\* itis with the missing time added to the last one
FillLast(its, missing) == [its EXCEPT ![Len(its)] = @ + missing]

\* the residual correction and the call of
\* randomize_carefully(list(range(1, N_CONDS + 1)), N_TRIALS)
EstimationFill ==
    /\ pc = "est_fill"
    /\ missing_time' = MissingTime(durations, itis)
    /\ itis' = FillLast(itis, MissingTime(durations, itis))
    /\ elems' = [k \in 1..N_CONDS |-> k]
    /\ n_repeat' = N_TRIALS
    /\ res' = <<>>
    /\ n' = 0
    /\ rc_ret' = "est_df"
    /\ pc' = "rc_loop"
    /\ UNCHANGED <<prog, pollVars, run_duration, task_time, audio_pool, py_random, np_random, ttype, seed, audio_files,
                   durations, timing_df, possible_itis, attempts, call,
                   seed_arg, first_df>>
    /\ UNCHANGED locVars
    /\ UNCHANGED ctVars

\* trial_types, timing_dict, timing_df; return timing_df, seed
EstimationDf ==
    /\ pc = "est_df"
    /\ timing_df' = TimingDf(durations, itis, res)
    /\ pc' = "dt_assign"
    /\ UNCHANGED <<prog, pollVars, run_duration, task_time, audio_pool, py_random, np_random, ttype, seed, audio_files,
                   durations, itis, call, seed_arg, first_df>>
    /\ UNCHANGED estVars
    /\ UNCHANGED rcVars
    /\ UNCHANGED locVars
    /\ UNCHANGED ctVars

---------------------------------------------------------------------------
(* generate_config_files.determine_timing *)

\* IsAuditory with `==` in place of `in`
IsAuditory_Equal(row) == row.trial_type = <<"auditory">>

\* 'auditory' in timing_df.loc[trial, 'trial_type']
IsAuditory(row) == Contains(row.trial_type, "auditory")

\* the value of the counter c when the loop reaches row k
AudioCounter(df, k) == Cardinality({j \in 1..(k - 1) : IsAuditory(df[j])})

\* the loop `for trial in timing_df.index`, which sets stim_file row by row
AssignStimFiles(df, audio) ==
    [k \in DOMAIN df |->
        [duration |-> df[k].duration, iti |-> df[k].iti,
         trial_type |-> df[k].trial_type,
         stim_file |-> IF IsAuditory(df[k])
                       THEN audio[AudioCounter(df, k) + 1]
                       ELSE None]]

\* NRepeats rounding down: int(n_audio_trials / n_audio_stimuli)
NRepeats_Floor(n_audio_trials, n_audio_stimuli) ==
    IF n_audio_stimuli = 0 THEN <<>>
    ELSE <<n_audio_trials \div n_audio_stimuli>>

\* NRepeats giving no copy of an empty pool instead of dividing by its size
NRepeats_EmptyGuard(n_audio_trials, n_audio_stimuli) ==
    IF n_audio_stimuli = 0 THEN <<0>>
    ELSE <<CeilDiv(n_audio_trials, n_audio_stimuli)>>

\* n_repeats = int(np.ceil(n_audio_trials / n_audio_stimuli)): <<n_repeats>>,
\* or <<>> when the division raises ZeroDivisionError
NRepeats(n_audio_trials, n_audio_stimuli) ==
    IF n_audio_stimuli = 0 THEN <<>>
    ELSE <<CeilDiv(n_audio_trials, n_audio_stimuli)>>

\* the ttype check, the audio list and its shuffle, and the dispatch on ttype
DetermineTimingStart ==
    /\ pc = "dt_start"
    /\ LET n_audio_trials ==
               N_TRIALS * Cardinality({k \in DOMAIN TRIAL_DICT :
                                           Contains(TRIAL_DICT[k], "auditory")})
           n_audio_stimuli == Len(audio_pool)
           n_repeats == NRepeats(n_audio_trials, n_audio_stimuli)
           audio_numbers == Repeat(n_audio_stimuli, n_repeats[1])
       IN  IF ttype \notin {"Detection", "Estimation"} \/ n_repeats = <<>>
           THEN /\ pc' = "raised"
                /\ UNCHANGED <<audio_files, np_random>>
           ELSE /\ \E f \in ShuffleDraws(np_random, Len(audio_numbers)) :
                       audio_files' = [k \in DOMAIN audio_numbers |->
                           audio_pool[Shuffle(audio_numbers, f)[k] + 1]]
                /\ np_random' = RngAfter(np_random, Len(audio_numbers) - 1)
                /\ pc' = IF ttype = "Estimation" THEN "est_start" ELSE "det_start"
    /\ UNCHANGED <<prog, pollVars, run_duration, task_time, audio_pool, py_random, ttype, seed, durations, itis, timing_df,
                   call, seed_arg, first_df>>
    /\ UNCHANGED estVars
    /\ UNCHANGED rcVars
    /\ UNCHANGED locVars
    /\ UNCHANGED ctVars

\* the stim_file loop and the return; audio_files[c] past the end of the list
\* raises IndexError
DetermineTimingAssign ==
    /\ pc = "dt_assign"
    /\ IF Cardinality({k \in DOMAIN timing_df : IsAuditory(timing_df[k])})
            > Len(audio_files)
       THEN pc' = "raised" /\ UNCHANGED timing_df
       ELSE pc' = "dt_return" /\ timing_df' = AssignStimFiles(timing_df, audio_files)
    /\ UNCHANGED <<prog, pollVars, run_duration, task_time, audio_pool, py_random, np_random, ttype, seed, audio_files,
                   durations, itis, call, seed_arg, first_df>>
    /\ UNCHANGED estVars
    /\ UNCHANGED rcVars
    /\ UNCHANGED locVars
    /\ UNCHANGED ctVars

\* the second call of determine_timing, with the arguments of the first
SecondCall ==
    /\ pc = "dt_return"
    /\ call = 1
    /\ first_df' = timing_df
    /\ call' = 2
    /\ seed' = seed_arg
    /\ timing_df' = <<>>
    /\ audio_files' = <<>>
    /\ durations' = <<>>
    /\ itis' = <<>>
    /\ pc' = "dt_start"
    /\ UNCHANGED <<prog, pollVars, run_duration, task_time, audio_pool, py_random, np_random, ttype, seed_arg>>
    /\ UNCHANGED rcVars
    /\ UNCHANGED estVars
    /\ UNCHANGED locVars
    /\ UNCHANGED ctVars

---------------------------------------------------------------------------
(* generate_config_files.main and localizer_task: the schedule file *)

NaN == "NaN"

\* '%.1f' of a time: the integer part and the one decimal of the nearest
\* multiple of 0.1 s
Format1(v) == [int |-> NearestTenth(v) \div 10, frac |-> NearestTenth(v) % 10]

\* df.to_csv(..., sep='\t', index=False, float_format='%.1f'): one line per
\* row; a missing stim_file is written as the empty string
ToCsv(df) ==
    Elements([k \in DOMAIN df |->
        [duration |-> Format1(df[k].duration), iti |-> Format1(df[k].iti),
         trial_type |-> df[k].trial_type,
         stim_file |-> IF df[k].stim_file = None THEN "" ELSE df[k].stim_file]])

\* pd.read_table(config_file): numbers are parsed, an empty cell is NaN
ReadTable(file) ==
    Elements([k \in DOMAIN file |->
        [duration |-> file[k].duration.int * 100 + file[k].duration.frac * 10,
         iti |-> file[k].iti.int * 100 + file[k].iti.frac * 10,
         trial_type |-> file[k].trial_type,
         stim_file |-> IF file[k].stim_file = "" THEN NaN ELSE file[k].stim_file]])

\* Permutation drawing every element anew (with replacement)
Permutation_Resampled(x, g) ==
    {Elements([k \in DOMAIN x |-> x[(Stream(g[1], k) % Len(x)) + 1]])}

\* np.random.permutation(x): the shuffled copies of x the generator g can
\* deliver
Permutation(x, g) == {Shuffle(x, f) : f \in ShuffleDraws(g, Len(x))}

\* the generators a process can start with
RngSeeds == {<<r>> : r \in 0..MaxRngSeed}

\* main writes the returned schedule; localizer_task, a new process with its
\* own generator, draws the file with np.random.choice and reads it
LocalizerLoad ==
    /\ pc = "dt_return"
    /\ config_df' = ReadTable(ToCsv(timing_df))
    /\ \E g \in RngSeeds : np_random' = RngAfter(g, 1)
    /\ shuffle_idx' = <<>>
    /\ pc' = "loc_shuffle"
    /\ UNCHANGED runVars
    /\ UNCHANGED <<prog, pollVars, run_duration, task_time, audio_pool, py_random, ttype, seed, audio_files, durations, itis,
                   timing_df, call, seed_arg, first_df>>
    /\ UNCHANGED estVars
    /\ UNCHANGED rcVars
    /\ UNCHANGED ctVars

\* the loop `for c in columns_to_shuffle`: "duration", then "iti"
LocalizerShuffle ==
    /\ pc = "loc_shuffle"
    /\ LET index == Elements([k \in DOMAIN config_df |-> k])
           m == Len(config_df)
       IN  \E idx1 \in Permutation(index, np_random) :
           \E idx2 \in Permutation(index, RngAfter(np_random, m - 1)) :
               \* config_df[c] = config_df.loc[shuffle_idx, c].reset_index(drop=True)
               /\ config_df' = Elements([k \in DOMAIN config_df |->
                      [config_df[k] EXCEPT !.duration = config_df[idx1[k]].duration,
                                           !.iti = config_df[idx2[k]].iti]])
               /\ shuffle_idx' = idx2
               /\ np_random' = RngAfter(np_random, 2 * (m - 1))
    /\ pc' = "loc_ready"
    /\ UNCHANGED runVars
    /\ UNCHANGED <<prog, pollVars, run_duration, task_time, audio_pool, py_random, ttype, seed, audio_files, durations, itis,
                   timing_df, call, seed_arg, first_df>>
    /\ UNCHANGED estVars
    /\ UNCHANGED rcVars
    /\ UNCHANGED ctVars

\* RUN_DURATION = 450 and LEAD_IN_DURATION = 6
RUN_DURATION == 45000
LEAD_IN_DURATION == 600

\* duration_one_display = 1 / frequency, with frequency=5
ONE_DISPLAY == 20

\* the time by which a busy loop of draw or flash_stimuli overruns its
\* duration: none, one frame, or 0.2 s on a display that stalls
Lags == {0, 2, 20}

\* DrawTime looping for the magnitude of the duration
DrawTime_Unsigned(duration, lag) == IF duration = 0 THEN 0 ELSE Abs(duration) + lag

\* draw(win, stim, duration, clock): the time the call takes; the loop
\* `while time.time() - start_time < duration` does not run at all when the
\* duration is not positive
DrawTime(duration, lag) == IF duration <= 0 THEN 0 ELSE duration + lag

\* flash_stimuli(win, stimuli, duration, frequency=5): the time the call
\* takes; every pass of the outer loop shows one stimulus for a whole
\* duration_one_display
FlashTime(duration, lag) ==
    IF duration <= 0 THEN 0 ELSE CeilDiv(duration, ONE_DISPLAY) * (ONE_DISPLAY + lag)

\* the time the stimulus of a trial takes: flash_stimuli for a visual trial,
\* draw for a motor trial
StimTime(trial_type, duration, lag) ==
    IF Contains(trial_type, "visual")
    THEN FlashTime(duration, lag)
    ELSE DrawTime(duration, lag)

\* COLUMNS
COLUMNS == <<"onset", "duration", "trial_type", "response_time", "tap_count",
             "tap_duration", "stim_file">>

\* data_set = {c: [] for c in COLUMNS}
EmptyDataSet == [c \in Range(COLUMNS) |-> <<>>]

\* np.nan in a column of times: a time t is held as <<t>>
NoTime == <<>>

\* data_set["onset"].append(...) and data_set["trial_type"].append(...)
LogOnset(ds, onset, trial_type) ==
    [ds EXCEPT !["onset"] = Append(@, onset),
               !["trial_type"] = Append(@, trial_type)]

\* data_set["stim_file"].append(...) and data_set["duration"].append(...)
LogStimulus(ds, row, duration) ==
    [ds EXCEPT !["stim_file"] = Append(@, IF IsAuditory(row) THEN row.stim_file
                                          ELSE "n/a"),
               !["duration"] = Append(@, duration)]

\* the four cases of response_time and tap_duration, and tap_count
LogKeys(ds, tkeys, ikeys) ==
    LET rt == IF tkeys # <<>> THEN <<tkeys[1][2]>>
              ELSE IF ikeys # <<>> THEN <<ikeys[1][2]>>
              ELSE NoTime
        td == IF tkeys # <<>> /\ ikeys # <<>> THEN <<Last(ikeys)[2] - tkeys[1][2]>>
              ELSE IF tkeys # <<>> THEN <<Last(tkeys)[2] - tkeys[1][2]>>
              ELSE IF ikeys # <<>> THEN <<Last(ikeys)[2] - ikeys[1][2]>>
              ELSE NoTime
    IN  [ds EXCEPT !["response_time"] = Append(@, rt),
                   !["tap_duration"] = Append(@, td),
                   !["tap_count"] = Append(@, Len(tkeys) + Len(ikeys))]

\* '%.2f' of a time: the integer part and the two decimals
Format2(v) == [int |-> v \div 100, frac |-> v % 100]

\* na_rep="n/a" and float_format="%.2f" for a cell of a column of times
FormatTime(cell) == IF cell = NoTime THEN <<"n/a">> ELSE <<Format2(cell[1])>>

\* OutFrame leaving out the row of the trial that has just ended
OutFrame_UntilPrevious(ds) ==
    Elements([k \in 1..(Len(ds["onset"]) - 1) |->
        [onset |-> Format2(ds["onset"][k]),
         duration |-> Format2(ds["duration"][k]),
         trial_type |-> ds["trial_type"][k],
         response_time |-> FormatTime(ds["response_time"][k]),
         tap_count |-> ds["tap_count"][k],
         tap_duration |-> FormatTime(ds["tap_duration"][k]),
         stim_file |-> ds["stim_file"][k]]])

\* pd.DataFrame(data_set, columns=COLUMNS).to_csv(outfile, sep="\t",
\* na_rep="n/a", index=False, float_format="%.2f"): the rows written
OutFrame(ds) ==
    Elements([k \in 1..Len(ds["onset"]) |->
        [onset |-> Format2(ds["onset"][k]),
         duration |-> Format2(ds["duration"][k]),
         trial_type |-> ds["trial_type"][k],
         response_time |-> FormatTime(ds["response_time"][k]),
         tap_count |-> ds["tap_count"][k],
         tap_duration |-> FormatTime(ds["tap_duration"][k]),
         stim_file |-> ds["stim_file"][k]]])

\* the variables of the polling loops, where these are not followed
PollVarsUnused ==
    /\ event_buffer = <<>> /\ n_presses = 0 /\ presses = 0 /\ pressed_hist = <<>>
    /\ task_keys = <<>> /\ iti_keys = <<>>
    /\ routine = "" /\ draw_call = "" /\ draw_duration = 0
    /\ start_time = 0 /\ this_start = 0 /\ trial_start = 0

\* IsLastTrial that is never true
IsLastTrial_Never(num, df) == FALSE

\* trial_num == config_df.index.values[-1]
IsLastTrial(num, df) == num = Len(df)

\* the trigger of the scanner, the two clocks, data_set, and the rest of
\* LEAD_IN_DURATION
LocalizerLeadIn ==
    /\ pc = "loc_ready"
    /\ \E lag \in Lags :
        /\ frame_lag' = lag
        /\ routine_clock' = DrawTime(LEAD_IN_DURATION, lag)
    /\ data_set' = EmptyDataSet
    /\ outfile' = <<>>
    /\ presented' = <<>>
    /\ trial_num' = 1
    /\ pc' = "loc_trial"
    \* the process that wrote the schedule is over: only its file (timing_df)
    \* is left of it
    /\ py_random' = <<>> /\ seed' = 0 /\ seed_arg' = 0 /\ call' = 1
    /\ audio_files' = <<>> /\ durations' = <<>> /\ itis' = <<>>
    /\ first_df' = <<>>
    /\ possible_itis' = {} /\ missing_time' = 0 /\ attempts' = 0
    /\ elems' = <<>> /\ n_repeat' = 0 /\ res' = <<>> /\ n' = 0 /\ rc_ret' = ""
    /\ UNCHANGED <<prog, pollVars, run_duration, task_time, audio_pool, np_random, ttype, timing_df,
                   config_df, shuffle_idx>>
    /\ UNCHANGED ctVars

\* one pass of `for trial_num in config_df.index` during which no key is
\* pressed: the stimulus, the rest, the values of data_set and the output file
LocalizerTrial ==
    /\ pc = "loc_trial"
    /\ trial_num <= Len(config_df)
    /\ LET trial_type == config_df[trial_num].trial_type
           trial_duration == config_df[trial_num].duration
           onset == routine_clock
           stim_end == onset + StimTime(trial_type, trial_duration, frame_lag)
           iti_duration == IF IsLastTrial(trial_num, config_df)
                           THEN run_duration - stim_end
                           ELSE config_df[trial_num].iti
           logged == LogKeys(LogStimulus(
                         LogOnset(data_set, onset, trial_type),
                         config_df[trial_num], stim_end - onset),
                       <<>>, <<>>)
       IN  /\ presented' = Append(presented,
                  [trial_type |-> trial_type, duration |-> trial_duration,
                   iti |-> iti_duration, stim_end |-> stim_end])
           /\ data_set' = logged
           /\ outfile' = OutFrame(logged)
           /\ routine_clock' = stim_end + DrawTime(iti_duration, frame_lag)
    /\ trial_num' = trial_num + 1
    /\ UNCHANGED <<prog, pollVars, run_duration, task_time, audio_pool, pc, py_random, np_random, ttype, seed,
                   audio_files, durations, itis, timing_df, call, seed_arg,
                   first_df, config_df, shuffle_idx, frame_lag>>
    /\ UNCHANGED estVars
    /\ UNCHANGED rcVars
    /\ UNCHANGED ctVars

\* the loop is over: print(f"Total run duration: {routine_clock.getTime()}")
LocalizerEnd ==
    /\ pc = "loc_trial"
    /\ trial_num > Len(config_df)
    /\ pc' = "loc_done"
    /\ UNCHANGED <<prog, pollVars, run_duration, task_time, audio_pool, py_random>>
    /\ UNCHANGED rcVars
    /\ UNCHANGED genVars


---------------------------------------------------------------------------
(* localizer_task: the trial loop with its polling loops and the keyboard *)

\* the keys pressed during a run are at most MaxPresses
MaxPresses == 2

\* the time one win.flip() takes in the runs whose polling loops are followed
FlipTime == ONE_DISPLAY \div 2

\* the keys of the button box and the escape key
Keys == {"1", "2", "escape"}

\* the part of a key list that keyList=["1", "2"] selects
IsButton(e) == e[1] \in {"1", "2"}
Buttons(buf) == SelectSeq(buf, IsButton)

\* event.getKeys(keyList=["1", "2"], timeStamped=clock): the keys returned and
\* the keys left in the buffer
GetKeys(buf) ==
    [keys |-> Buttons(buf),
     left |-> SelectSeq(buf, LAMBDA e : ~IsButton(e))]

\* close_on_esc(win): event.getKeys() fetches every key of the buffer
CloseOnEsc(buf) ==
    [escape |-> \E i \in DOMAIN buf : buf[i][1] = "escape",
     left |-> <<>>]

\* event.clearEvents(eventType="keyboard")
ClearEvents(buf) == <<>>

\* what the output file holds when the run starts: nothing, as the file does
\* not exist, or, when its name holds "Pilot", the rows an earlier run left
EarlierFiles ==
    {<<>>,
     OutFrame(LogKeys(LogStimulus(LogOnset(EmptyDataSet, LEAD_IN_DURATION,
                                           TRIAL_DICT[3]),
                                  [trial_type |-> TRIAL_DICT[3],
                                   stim_file |-> NaN], 20),
                      <<>>, <<>>))}

\* the schedules of the runs whose polling loops are followed: a motor trial
\* and a visual/auditory trial of 0.2 s each with rests of 0.1 s, in both orders
PollSchedules ==
    LET motor == [duration |-> 20, iti |-> 10, trial_type |-> TRIAL_DICT[3],
                  stim_file |-> NaN]
        visual == [duration |-> 20, iti |-> 10, trial_type |-> TRIAL_DICT[2],
                   stim_file |-> _AUDIO_FILES[1]]
    IN  {<<motor, visual>>, <<visual, motor>>}

\* where a stimulus routine returns to
ReturnTo == IF draw_call = "task" THEN "tr_mid" ELSE "tr_end"

\* the position after a pass of the loop of draw
DrawLoop(now, since) ==
    IF now - since < draw_duration THEN "draw_getkeys" ELSE ReturnTo

\* the position after a pass of the inner loop of flash_stimuli
FlashLoop(now, since) == IF now - since < ONE_DISPLAY THEN "flash_flip" ELSE "flash_outer"

\* the current time lies in the stimulus period of the current trial or in
\* the rest that follows it
InPeriod ==
    \/ pc \in {"draw_getkeys", "draw_esc", "draw_flip", "flash_outer",
               "flash_flip", "flash_getkeys", "flash_esc", "tr_mid"}
    \/ pc = "draw_clear" /\ draw_call = "iti"

otherVars == <<prog, py_random, rcVars, np_random, ttype, seed, audio_files,
               durations, itis, timing_df, estVars, call, seed_arg, first_df,
               config_df, shuffle_idx, frame_lag, presented, ctVars, task_time,
               audio_pool, run_duration>>

\* the participant presses a key
Press ==
    /\ prog = "polling"
    /\ pc \notin {"poll_done", "quit"}
    /\ n_presses < MaxPresses
    /\ \E key \in Keys :
        /\ event_buffer' = Append(event_buffer, <<key, routine_clock - trial_start>>)
        /\ presses' = IF InPeriod /\ key \in {"1", "2"} THEN presses + 1 ELSE presses
    /\ n_presses' = n_presses + 1
    /\ UNCHANGED <<pc, trial_num, routine_clock, data_set, outfile, pressed_hist,
                   task_keys, iti_keys, routine, draw_call, draw_duration,
                   start_time, this_start, trial_start>>
    /\ UNCHANGED otherVars

\* the top of a pass of `for trial_num in config_df.index`, up to the call of
\* flash_stimuli or draw
TrialBegin ==
    /\ pc = "tr_begin"
    /\ trial_num <= Len(config_df)
    /\ trial_start' = routine_clock
    /\ data_set' = LogOnset(data_set, routine_clock, config_df[trial_num].trial_type)
    /\ task_keys' = <<>>
    /\ iti_keys' = <<>>
    /\ presses' = 0
    /\ routine' = IF Contains(config_df[trial_num].trial_type, "visual")
                  THEN "flash" ELSE "draw"
    /\ draw_call' = "task"
    /\ draw_duration' = config_df[trial_num].duration
    /\ pc' = "draw_clear"
    /\ UNCHANGED <<trial_num, routine_clock, outfile, event_buffer, n_presses,
                   pressed_hist, start_time, this_start>>
    /\ UNCHANGED otherVars

\* the start of draw or flash_stimuli: start_time and event.clearEvents
RoutineStart ==
    /\ pc = "draw_clear"
    /\ start_time' = routine_clock
    /\ event_buffer' = ClearEvents(event_buffer)
    /\ pc' = IF routine = "flash" THEN "flash_outer" ELSE DrawLoop(routine_clock, routine_clock)
    /\ UNCHANGED <<trial_num, routine_clock, data_set, outfile, n_presses, presses,
                   pressed_hist, task_keys, iti_keys, routine, draw_call,
                   draw_duration, this_start, trial_start>>
    /\ UNCHANGED otherVars

\* response.keys.extend(keys) for the keys a call of getKeys returned
Fetch ==
    /\ event_buffer' = GetKeys(event_buffer).left
    /\ IF draw_call = "task"
       THEN /\ task_keys' = task_keys \o GetKeys(event_buffer).keys
            /\ UNCHANGED iti_keys
       ELSE /\ iti_keys' = iti_keys \o GetKeys(event_buffer).keys
            /\ UNCHANGED task_keys

\* close_on_esc(win), going on at position next unless escape was pressed
EscOr(next) ==
    /\ event_buffer' = CloseOnEsc(event_buffer).left
    /\ pc' = IF CloseOnEsc(event_buffer).escape THEN "quit" ELSE next

\* draw: stim.draw() and event.getKeys(keyList=["1", "2"], timeStamped=clock)
DrawGetKeys ==
    /\ pc = "draw_getkeys"
    /\ Fetch
    /\ pc' = "draw_esc"
    /\ UNCHANGED <<trial_num, routine_clock, data_set, outfile, n_presses, presses,
                   pressed_hist, routine, draw_call, draw_duration, start_time,
                   this_start, trial_start>>
    /\ UNCHANGED otherVars

\* draw: close_on_esc(win)
DrawCloseOnEsc ==
    /\ pc = "draw_esc"
    /\ EscOr("draw_flip")
    /\ UNCHANGED <<trial_num, routine_clock, data_set, outfile, n_presses, presses,
                   pressed_hist, task_keys, iti_keys, routine, draw_call,
                   draw_duration, start_time, this_start, trial_start>>
    /\ UNCHANGED otherVars

\* draw: win.flip() and the test of the while loop
DrawFlip ==
    /\ pc = "draw_flip"
    /\ routine_clock' = routine_clock + FlipTime
    /\ pc' = DrawLoop(routine_clock + FlipTime, start_time)
    /\ UNCHANGED <<trial_num, data_set, outfile, event_buffer, n_presses, presses,
                   pressed_hist, task_keys, iti_keys, routine, draw_call,
                   draw_duration, start_time, this_start, trial_start>>
    /\ UNCHANGED otherVars

\* flash_stimuli: the test of the outer loop, its getKeys and _this_start
FlashOuter ==
    /\ pc = "flash_outer"
    /\ IF routine_clock - start_time < draw_duration
       THEN /\ Fetch
            /\ this_start' = routine_clock
            /\ pc' = FlashLoop(routine_clock, routine_clock)
       ELSE /\ pc' = ReturnTo
            /\ UNCHANGED <<event_buffer, task_keys, iti_keys, this_start>>
    /\ UNCHANGED <<trial_num, routine_clock, data_set, outfile, n_presses, presses,
                   pressed_hist, routine, draw_call, draw_duration, start_time,
                   trial_start>>
    /\ UNCHANGED otherVars

\* flash_stimuli: win.flip()
FlashFlip ==
    /\ pc = "flash_flip"
    /\ routine_clock' = routine_clock + FlipTime
    /\ pc' = "flash_getkeys"
    /\ UNCHANGED <<trial_num, data_set, outfile, event_buffer, n_presses, presses,
                   pressed_hist, task_keys, iti_keys, routine, draw_call,
                   draw_duration, start_time, this_start, trial_start>>
    /\ UNCHANGED otherVars

\* flash_stimuli: event.getKeys(keyList=["1", "2"], timeStamped=trial_clock)
\* and this_stim.draw()
FlashGetKeys ==
    /\ pc = "flash_getkeys"
    /\ Fetch
    /\ pc' = "flash_esc"
    /\ UNCHANGED <<trial_num, routine_clock, data_set, outfile, n_presses, presses,
                   pressed_hist, routine, draw_call, draw_duration, start_time,
                   this_start, trial_start>>
    /\ UNCHANGED otherVars

\* flash_stimuli: close_on_esc(win) and the test of the inner loop
FlashCloseOnEsc ==
    /\ pc = "flash_esc"
    /\ EscOr(FlashLoop(routine_clock, this_start))
    /\ UNCHANGED <<trial_num, routine_clock, data_set, outfile, n_presses, presses,
                   pressed_hist, task_keys, iti_keys, routine, draw_call,
                   draw_duration, start_time, this_start, trial_start>>
    /\ UNCHANGED otherVars

\* between the stimulus and the rest: stim_file, duration, the ITI of the last
\* trial, and the call of draw for the rest
TrialMid ==
    /\ pc = "tr_mid"
    /\ data_set' = LogStimulus(data_set, config_df[trial_num],
                               routine_clock - trial_start)
    /\ routine' = "draw"
    /\ draw_call' = "iti"
    /\ draw_duration' = IF IsLastTrial(trial_num, config_df)
                        THEN run_duration - routine_clock
                        ELSE config_df[trial_num].iti
    /\ pc' = "draw_clear"
    /\ UNCHANGED <<trial_num, routine_clock, outfile, event_buffer, n_presses,
                   presses, pressed_hist, task_keys, iti_keys, start_time,
                   this_start, trial_start>>
    /\ UNCHANGED otherVars

\* the end of a pass: response_time, tap_duration, tap_count and the output file
TrialEnd ==
    /\ pc = "tr_end"
    /\ data_set' = LogKeys(data_set, task_keys, iti_keys)
    /\ outfile' = OutFrame(LogKeys(data_set, task_keys, iti_keys))
    /\ pressed_hist' = Append(pressed_hist, presses)
    /\ trial_num' = trial_num + 1
    /\ pc' = "tr_begin"
    /\ UNCHANGED <<routine_clock, event_buffer, n_presses, presses, task_keys,
                   iti_keys, routine, draw_call, draw_duration, start_time,
                   this_start, trial_start>>
    /\ UNCHANGED otherVars

\* after the loop: the output file is written once more
RunEnd ==
    /\ pc = "tr_begin"
    /\ trial_num > Len(config_df)
    /\ outfile' = OutFrame(data_set)
    /\ pc' = "poll_done"
    /\ UNCHANGED <<trial_num, routine_clock, data_set, event_buffer, n_presses,
                   presses, pressed_hist, task_keys, iti_keys, routine, draw_call,
                   draw_duration, start_time, this_start, trial_start>>
    /\ UNCHANGED otherVars

---------------------------------------------------------------------------
(* combined_task.trial_duration_and_iti (times in units of 0.1 ms) *)

\* one second
CT_SECOND == 10000
CT_N_CONDS == 3
CT_N_TRIALS == 14
CT_DUR_RANGE == <<1 * CT_SECOND, 5 * CT_SECOND>>
CT_ITI_RANGE == <<3 * CT_SECOND, 118400>>
TOTAL_TIME == 438 * CT_SECOND
\* atol=.001
CT_ATOL == 10

\* np.average of a pair
Average(r) == (r[1] + r[2]) \div 2

\* length = (np.average(dur_range) + np.average(iti_range)) * n_trials
Length(a) == (Average(a.dur_range) + Average(a.iti_range)) * a.n_trials

\* state.uniform(dur_range[0], dur_range[1], n_trials) of a fresh RandomState:
\* the vectors the model draws alternate two values
TrialDurSamples(a) ==
    {Elements([k \in 1..a.n_trials |-> IF k % 2 = 1 THEN d[1] ELSE d[2]]) :
        d \in {<<Average(a.dur_range), Average(a.dur_range)>>,
               <<a.dur_range[1], a.dur_range[2] - 1>>,
               <<a.dur_range[1], a.dur_range[1]>>}}

\* state.uniform(iti_range[0], iti_range[1], n_trials): the vectors the model
\* draws hold one value, and another one in the last place
TrialItiSamples(a) ==
    {Elements([k \in 1..a.n_trials |-> IF k = a.n_trials THEN iLast ELSE i]) :
        i \in {Average(a.iti_range), a.iti_range[1]},
        iLast \in {Average(a.iti_range) + x : x \in {-5, 0, 5, 11}}
                  \cup {a.iti_range[1], a.iti_range[2] - 1}}

\* the test of the while loop
CTLoopTest(missing) == ~IsCloseToZero(missing, CT_ATOL)

\* Incompatible with `>=` in place of `>`
Incompatible_AtLeast(a) == Abs(Length(a) * a.n_conds - TOTAL_TIME) >= 10 * CT_SECOND

\* np.abs((length * n_conds) - TOTAL_TIME) > 10
Incompatible(a) == Abs(Length(a) * a.n_conds - TOTAL_TIME) > 10 * CT_SECOND

\* length, the compatibility check, missing_time_per_cond and the seed
CTStart ==
    /\ pc = "ct_start"
    /\ IF Incompatible(ct_args)
       THEN pc' = "raised" /\ UNCHANGED <<missing_time_per_cond, seed, np_random>>
       ELSE /\ missing_time_per_cond' = FLOAT_MAX
            /\ IF seed \notin {NoSeed, 0}
               THEN seed' = seed * 1000 /\ UNCHANGED np_random
               ELSE /\ seed' = 1000 + (Stream(np_random[1], 1) % (9999 - 1000))
                    /\ np_random' = RngAfter(np_random, 1)
            /\ pc' = "ct_loop"
    /\ attempts' = 0
    /\ UNCHANGED <<prog, pollVars, run_duration, task_time, audio_pool, py_random, ttype, audio_files, durations, itis,
                   timing_df, possible_itis, missing_time, call, seed_arg,
                   first_df, ct_args, trial_durs, trial_itis,
                   all_cond_trial_durs, all_cond_trial_itis>>
    /\ UNCHANGED rcVars
    /\ UNCHANGED locVars

\* one iteration of the rejection loop
CTAttempt ==
    /\ pc = "ct_loop"
    /\ CTLoopTest(missing_time_per_cond)
    /\ attempts < MaxAttempts
    /\ \E durs \in TrialDurSamples(ct_args) : \E its \in TrialItiSamples(ct_args) :
        /\ trial_durs' = durs
        /\ trial_itis' = its
        /\ missing_time_per_cond' =
              Length(ct_args) - SumSeq([k \in DOMAIN durs |-> durs[k] + its[k]])
    /\ seed' = seed + 1
    /\ attempts' = attempts + 1
    /\ UNCHANGED <<prog, pollVars, run_duration, task_time, audio_pool, pc, py_random, np_random, ttype, audio_files, durations,
                   itis, timing_df, possible_itis, missing_time, call, seed_arg,
                   first_df, ct_args, all_cond_trial_durs, all_cond_trial_itis>>
    /\ UNCHANGED rcVars
    /\ UNCHANGED locVars

\* the loop test fails: the sample is accepted
CTAccept ==
    /\ pc = "ct_loop"
    /\ ~CTLoopTest(missing_time_per_cond)
    /\ pc' = "ct_fill"
    /\ UNCHANGED <<prog, pollVars, run_duration, task_time, audio_pool, py_random>>
    /\ UNCHANGED rcVars
    /\ UNCHANGED genVars

\* missing_time_per_cond += (TOTAL_TIME / n_conds) - length, and
\* trial_itis[-1] += missing_time_per_cond
CTFill ==
    /\ pc = "ct_fill"
    /\ LET missing == missing_time_per_cond
                        + ((TOTAL_TIME \div ct_args.n_conds) - Length(ct_args))
       IN  /\ missing_time_per_cond' = missing
           /\ trial_itis' = FillLast(trial_itis, missing)
    /\ pc' = "ct_permute"
    /\ UNCHANGED <<prog, pollVars, run_duration, task_time, audio_pool, py_random, np_random, ttype, seed, audio_files,
                   durations, itis, timing_df, possible_itis, missing_time,
                   attempts, call, seed_arg, first_df, ct_args, trial_durs,
                   all_cond_trial_durs, all_cond_trial_itis>>
    /\ UNCHANGED rcVars
    /\ UNCHANGED locVars

\* PermutationList without `for _ in range(n_conds)`
PermutationList_Once(x, g, n_conds) ==
    Elements([c \in 1..1 |-> CHOOSE p \in Permutation(x, g) : TRUE])

\* [np.random.permutation(x) for _ in range(n_conds)], the generator being g
PermutationList(x, g, n_conds) ==
    Elements([c \in 1..n_conds |->
        CHOOSE p \in Permutation(x, RngAfter(g, (c - 1) * (Len(x) - 1))) : TRUE])

\* all_cond_trial_durs, all_cond_trial_itis; return
CTPermute ==
    /\ pc = "ct_permute"
    /\ all_cond_trial_durs' = PermutationList(trial_durs, np_random, ct_args.n_conds)
    /\ all_cond_trial_itis' =
          PermutationList(trial_itis,
                       RngAfter(np_random, ct_args.n_conds * (Len(trial_durs) - 1)),
                       ct_args.n_conds)
    /\ np_random' = RngAfter(np_random, 2 * ct_args.n_conds * (Len(trial_durs) - 1))
    /\ pc' = "ct_return"
    /\ UNCHANGED <<prog, pollVars, run_duration, task_time, audio_pool, py_random, ttype, seed, audio_files, durations, itis,
                   timing_df, possible_itis, missing_time, attempts, call,
                   seed_arg, first_df, ct_args, trial_durs, trial_itis,
                   missing_time_per_cond>>
    /\ UNCHANGED rcVars
    /\ UNCHANGED locVars

---------------------------------------------------------------------------
(* Entry points *)

\* lists of distinct conditions
CondLists == {SortedList(S) : S \in SUBSET (1..MaxConds)}

InitSequencer ==
    /\ prog = "sequencer"
    /\ pc = "rc_loop"
    /\ py_random = <<>>
    /\ elems \in CondLists
    /\ n_repeat \in 0..MaxRepeat
    /\ res = <<>>
    /\ n = 0
    /\ rc_ret = "rc_done"
    /\ np_random = <<>>
    /\ task_time = TASK_TIME /\ audio_pool = _AUDIO_FILES
    /\ ttype = "" /\ seed = 0 /\ seed_arg = 0 /\ call = 0
    /\ audio_files = <<>> /\ durations = <<>> /\ itis = <<>>
    /\ timing_df = <<>> /\ first_df = <<>>
    /\ possible_itis = {} /\ missing_time = 0 /\ attempts = 0
    /\ config_df = <<>> /\ shuffle_idx = <<>>
    /\ trial_num = 0 /\ routine_clock = 0 /\ frame_lag = 0
    /\ presented = <<>> /\ data_set = EmptyDataSet /\ outfile = <<>>
    /\ run_duration = RUN_DURATION
    /\ PollVarsUnused
    /\ ct_args = <<>> /\ trial_durs = <<>> /\ trial_itis = <<>>
    /\ missing_time_per_cond = 0
    /\ all_cond_trial_durs = <<>> /\ all_cond_trial_itis = <<>>

\* the configurations of the module: the constants as they are, a target no
\* sample of the ranges reaches, and an empty audio pool
Configs ==
    {[task_time |-> TASK_TIME, audio_pool |-> _AUDIO_FILES],
     [task_time |-> 2 * TASK_TIME, audio_pool |-> _AUDIO_FILES],
     [task_time |-> TASK_TIME, audio_pool |-> <<>>]}

InitGenerate ==
    /\ prog = "generate"
    /\ pc = "dt_start"
    /\ \E c \in Configs : task_time = c.task_time /\ audio_pool = c.audio_pool
    /\ py_random \in RngSeeds
    /\ np_random \in RngSeeds
    /\ ttype \in {"Detection", "Estimation", "Localizer"}
    /\ seed_arg \in {NoSeed, 0, 1}
    /\ seed = seed_arg
    /\ call = 1
    /\ elems = <<>> /\ n_repeat = 0 /\ res = <<>> /\ n = 0 /\ rc_ret = ""
    /\ audio_files = <<>> /\ durations = <<>> /\ itis = <<>>
    /\ timing_df = <<>> /\ first_df = <<>>
    /\ possible_itis = {} /\ missing_time = 0 /\ attempts = 0
    /\ config_df = <<>> /\ shuffle_idx = <<>>
    /\ trial_num = 0 /\ routine_clock = 0 /\ frame_lag = 0
    /\ presented = <<>> /\ data_set = EmptyDataSet /\ outfile = <<>>
    /\ run_duration = RUN_DURATION
    /\ PollVarsUnused
    /\ ct_args = <<>> /\ trial_durs = <<>> /\ trial_itis = <<>>
    /\ missing_time_per_cond = 0
    /\ all_cond_trial_durs = <<>> /\ all_cond_trial_itis = <<>>

\* the arguments of the call in combined_task's __main__, the same with one
\* trial more per condition, and two calls with 2 conditions of 16 trials
\* whose requested time is 448 s and 448.0032 s
CTArgs ==
    {[dur_range |-> CT_DUR_RANGE, iti_range |-> CT_ITI_RANGE,
      n_trials |-> nt, n_conds |-> CT_N_CONDS] : nt \in {CT_N_TRIALS, CT_N_TRIALS + 1}}
    \cup
    {[dur_range |-> CT_DUR_RANGE, iti_range |-> <<3 * CT_SECOND, hi>>,
      n_trials |-> 16, n_conds |-> 2] : hi \in {19 * CT_SECOND, 19 * CT_SECOND + 2}}

\* a call of trial_duration_and_iti
InitCombined ==
    /\ prog = "combined"
    /\ pc = "ct_start"
    /\ py_random \in RngSeeds
    /\ np_random \in RngSeeds
    /\ ct_args \in CTArgs
    /\ seed = NoSeed
    /\ task_time = TASK_TIME /\ audio_pool = _AUDIO_FILES
    /\ ttype = "" /\ seed_arg = 0 /\ call = 0
    /\ elems = <<>> /\ n_repeat = 0 /\ res = <<>> /\ n = 0 /\ rc_ret = ""
    /\ audio_files = <<>> /\ durations = <<>> /\ itis = <<>>
    /\ timing_df = <<>> /\ first_df = <<>>
    /\ possible_itis = {} /\ missing_time = 0 /\ attempts = 0
    /\ config_df = <<>> /\ shuffle_idx = <<>>
    /\ trial_num = 0 /\ routine_clock = 0 /\ frame_lag = 0
    /\ presented = <<>> /\ data_set = EmptyDataSet /\ outfile = <<>>
    /\ run_duration = RUN_DURATION
    /\ PollVarsUnused
    /\ trial_durs = <<>> /\ trial_itis = <<>>
    /\ missing_time_per_cond = 0
    /\ all_cond_trial_durs = <<>> /\ all_cond_trial_itis = <<>>

\* a run of localizer_task after the lead-in, with a short schedule and a
\* short run duration
InitPolling ==
    /\ prog = "polling"
    /\ pc = "tr_begin"
    /\ config_df \in PollSchedules
    /\ run_duration = LEAD_IN_DURATION + 80
    /\ trial_num = 1 /\ routine_clock = LEAD_IN_DURATION /\ frame_lag = 0
    /\ presented = <<>> /\ data_set = EmptyDataSet /\ outfile \in EarlierFiles
    /\ PollVarsUnused
    /\ py_random = <<>> /\ np_random = <<>>
    /\ elems = <<>> /\ n_repeat = 0 /\ res = <<>> /\ n = 0 /\ rc_ret = ""
    /\ task_time = TASK_TIME /\ audio_pool = _AUDIO_FILES
    /\ ttype = "" /\ seed = 0 /\ seed_arg = 0 /\ call = 0
    /\ audio_files = <<>> /\ durations = <<>> /\ itis = <<>>
    /\ timing_df = <<>> /\ first_df = <<>>
    /\ possible_itis = {} /\ missing_time = 0 /\ attempts = 0
    /\ shuffle_idx = <<>>
    /\ ct_args = <<>> /\ trial_durs = <<>> /\ trial_itis = <<>>
    /\ missing_time_per_cond = 0
    /\ all_cond_trial_durs = <<>> /\ all_cond_trial_itis = <<>>

Init == InitSequencer \/ InitGenerate \/ InitCombined \/ InitPolling

Next ==
    \/ RCPass
    \/ RCReturn
    \/ DetectionTiming
    \/ DetectionDf
    \/ EstimationStart
    \/ EstimationAttempt
    \/ EstimationAccept
    \/ EstimationFill
    \/ EstimationDf
    \/ DetermineTimingStart
    \/ DetermineTimingAssign
    \/ SecondCall
    \/ LocalizerLoad
    \/ LocalizerShuffle
    \/ LocalizerLeadIn
    \/ LocalizerTrial
    \/ LocalizerEnd
    \/ Press
    \/ TrialBegin
    \/ RoutineStart
    \/ DrawGetKeys
    \/ DrawCloseOnEsc
    \/ DrawFlip
    \/ FlashOuter
    \/ FlashFlip
    \/ FlashGetKeys
    \/ FlashCloseOnEsc
    \/ TrialMid
    \/ TrialEnd
    \/ RunEnd
    \/ CTStart
    \/ CTAttempt
    \/ CTAccept
    \/ CTFill
    \/ CTPermute

Spec == Init /\ [][Next]_vars

---------------------------------------------------------------------------
(* Claims *)

\* C1: for distinct conditions and n_repeat >= 1, randomize_carefully returns
\* len(elems) * n_repeat entries and every condition exactly n_repeat times.
C1_LengthAndCounts ==
    (prog = "sequencer" /\ pc = "rc_done" /\ n_repeat >= 1) =>
        /\ Len(res) = Len(elems) * n_repeat
        /\ \A c \in Range(elems) : Count(res, c) = n_repeat
        /\ Range(res) \subseteq Range(elems)

C1_Witness ==
    /\ prog = "sequencer" /\ pc = "rc_done"
    /\ n_repeat >= 2 /\ Len(elems) >= 2

\* C2: with at least 2 distinct conditions, no two adjacent entries of the
\* result are equal, inside a pass and across pass boundaries.
C2_NoAdjacentRepeat ==
    (prog = "sequencer" /\ Len(elems) >= 2) => NoAdjacentEqual(res)

C2_Witness ==
    /\ prog = "sequencer" /\ pc = "rc_done"
    /\ n_repeat >= 2 /\ Len(elems) >= 3
    /\ res[Len(elems) + 1] # res[1]

\* the schedule determine_timing has returned
Returned == prog = "generate" /\ pc = "dt_return"

\* sum(t.duration + t.iti for t in schedule)
TotalTime(df) == SumSeq([k \in DOMAIN df |-> df[k].duration + df[k].iti])

\* C3: every schedule of estimation_timing has 60 trials, 15 of each of the 4
\* conditions, and its durations and ITIs sum to TASK_TIME (438 s) exactly.
C3_EstimationTotal ==
    (prog = "generate" /\ ttype = "Estimation" /\ pc \in {"dt_assign", "dt_return"}) =>
        /\ Len(timing_df) = 60
        /\ \A c \in DOMAIN TRIAL_DICT :
              Cardinality({k \in DOMAIN timing_df :
                              timing_df[k].trial_type = TRIAL_DICT[c]}) = 15
        /\ TotalTime(timing_df) = 43800

C3_Witness ==
    /\ Returned /\ ttype = "Estimation"
    /\ attempts >= 2 /\ missing_time > 0

\* C4: two calls of determine_timing with the same seed and configuration
\* return identical schedules.
C4_SameSeedSameSchedule ==
    (Returned /\ call = 2 /\ seed_arg # NoSeed) => timing_df = first_df

\* C5: in every returned schedule a trial has a stim_file if and only if its
\* trial_type contains "auditory".
C5_StimFileIffAuditory ==
    Returned =>
        \A k \in DOMAIN timing_df :
            /\ (timing_df[k].stim_file # None)
                  <=> Contains(timing_df[k].trial_type, "auditory")
            /\ timing_df[k].stim_file \in Range(_AUDIO_FILES) \cup {None}

C5_Witness ==
    /\ Returned /\ ttype = "Detection"
    /\ \E k \in DOMAIN timing_df : timing_df[k].stim_file # None
    /\ \E k \in DOMAIN timing_df : timing_df[k].stim_file = None

\* the files of the auditory trials, in the order of their assignment
UsedFiles(df) ==
    LET idx == {k \in DOMAIN df : df[k].stim_file # None}
    IN  [j \in 1..Cardinality(idx) |->
            df[CHOOSE k \in idx : Cardinality({i \in idx : i < k}) = j - 1].stim_file]

\* C6: in every returned schedule the numbers of trials of any two files of
\* the pool differ by at most 1.
C6_AudioCountsBalanced ==
    Returned =>
        \A f \in Range(_AUDIO_FILES) : \A g \in Range(_AUDIO_FILES) :
            Count(UsedFiles(timing_df), f) - Count(UsedFiles(timing_df), g) <= 1

\* C7: no file is used a second time before every file of the pool has been
\* used once, and the pool is repeated only as often as the auditory trials
\* of the run type need.
C7_NoReuseBeforeExhausted ==
    Returned =>
        LET used == UsedFiles(timing_df)
        IN  /\ \A j \in DOMAIN used :
                  (\E i \in 1..(j - 1) : used[i] = used[j]) =>
                      {used[i] : i \in 1..(j - 1)} = Range(_AUDIO_FILES)
            /\ Len(audio_files)
                  = Len(_AUDIO_FILES) * CeilDiv(Len(used), Len(_AUDIO_FILES))

\* C8: the rejection loop of estimation_timing exits only with a residual
\* TASK_TIME - sum(durations + itis) between 0 and the tolerance (10 s).
C8_AcceptedResidual ==
    (prog = "generate" /\ pc = "est_fill") =>
        /\ missing_time = 43800 - SumSeq(durations) - SumSeq(itis)
        /\ 0 <= missing_time
        /\ missing_time <= 1000

C8_Witness ==
    /\ prog = "generate" /\ pc = "est_fill"
    /\ attempts >= 2 /\ missing_time = 1000

\* C9: when the rejection loop of combined_task.trial_duration_and_iti exits,
\* the accepted per-condition total is within the tolerance of the target and
\* does not exceed it: the residual missing_time_per_cond is non-negative
C9_ExitResidualNonNegative ==
    (prog = "combined" /\ pc = "ct_fill")
    => /\ IsCloseToZero(missing_time_per_cond, CT_ATOL)
       /\ missing_time_per_cond >= 0

\* C10, as stated: in the schedule that is finally presented the trial whose
\* ITI absorbed the residual is the last trial, in each condition of
\* combined_task and in the schedule localizer_task has loaded and shuffled
C10_ResidualOnLastPresented ==
    /\ (prog = "combined" /\ pc = "ct_return")
       => \A c \in DOMAIN all_cond_trial_itis :
              Last(all_cond_trial_itis[c]) = Last(trial_itis)
    /\ (prog = "generate" /\ pc = "loc_ready" /\ ttype = "Estimation")
       => Last(shuffle_idx) = Len(shuffle_idx)

\* C10, amended: the residual is added to the last element of the sampled ITI
\* vector, every other element being left as sampled.  estimation_timing
\* returns the ITIs in that order, so the last row of its schedule holds the
\* corrected ITI.  combined_task permutes the corrected vector for each
\* condition, and localizer_task permutes the iti column of the schedule it
\* loads, so the corrected ITI is presented at the place the permutation
\* gives it.
C10_ResidualOnLastSampled ==
    /\ (prog = "generate" /\ ttype = "Estimation"
            /\ pc \in {"dt_assign", "dt_return", "loc_shuffle", "loc_ready"})
       => /\ \A k \in DOMAIN timing_df : timing_df[k].iti = itis[k]
          /\ \A k \in 1..(Len(itis) - 1) : itis[k] \in possible_itis
          /\ Last(itis) - missing_time \in possible_itis
    /\ (prog = "generate" /\ ttype = "Estimation" /\ pc = "loc_ready")
       => \A j \in DOMAIN config_df :
              config_df[j].iti = timing_df[shuffle_idx[j]].iti
    /\ (prog = "combined" /\ pc \in {"ct_permute", "ct_return"})
       => /\ \A k \in 1..(Len(trial_itis) - 1) :
                 /\ trial_itis[k] >= ct_args.iti_range[1]
                 /\ trial_itis[k] < ct_args.iti_range[2]
          /\ Last(trial_itis) - missing_time_per_cond >= ct_args.iti_range[1]
          /\ Last(trial_itis) - missing_time_per_cond < ct_args.iti_range[2]
    /\ (prog = "combined" /\ pc = "ct_return")
       => \A c \in DOMAIN all_cond_trial_itis :
              \A v \in Range(trial_itis) :
                  Count(all_cond_trial_itis[c], v) = Count(trial_itis, v)

C10_Witness ==
    /\ prog = "generate" /\ pc = "loc_ready" /\ ttype = "Estimation"
    /\ missing_time > 0
    /\ Last(shuffle_idx) # Len(shuffle_idx)
    /\ Last(timing_df).iti = Last(itis)

\* C11: with exactly one condition and n_repeat >= 2 randomize_carefully
\* signals a configuration error: it does not return normally (and so returns
\* no sequence with adjacent equal conditions)
C11_SingleConditionRejected ==
    ~(/\ prog = "sequencer" /\ pc = "rc_done"
      /\ Len(elems) = 1 /\ n_repeat >= 2)

\* C12: with n_repeat < 1 or an empty condition list randomize_carefully fails
\* with a configuration error: it does not return a sequence
C12_EmptyInputRejected ==
    ~(/\ prog = "sequencer" /\ pc = "rc_done"
      /\ (n_repeat < 1 \/ elems = <<>>))

\* the sanity margin of the feasibility check: 10 s
EstInfeasible ==
    Abs((N_TRIALS_TOTAL * (DUR_RANGE[1] + DUR_RANGE[2] + ITI_RANGE[1] + ITI_RANGE[2]))
            \div 2 - task_time) > 1000

CTInfeasible ==
    Abs(Length(ct_args) * ct_args.n_conds - TOTAL_TIME) > 10 * CT_SECOND

\* C13: estimation_timing and trial_duration_and_iti check feasibility before
\* the rejection loop: when the averages of the ranges times the number of
\* trials miss the target by more than the sanity margin, the allocator fails
\* and no sample has been drawn
C13_FeasibilityCheckedFirst ==
    /\ (prog = "generate" /\ ttype = "Estimation" /\ EstInfeasible)
       => /\ pc \in {"dt_start", "est_start", "raised"}
          /\ attempts = 0 /\ durations = <<>> /\ itis = <<>>
    /\ (prog = "combined" /\ CTInfeasible)
       => /\ pc \in {"ct_start", "raised"}
          /\ attempts = 0 /\ trial_durs = <<>> /\ trial_itis = <<>>

\* C14: the rejection loops are bounded: once the largest number of attempts
\* the model follows has been made, the loop is not about to resample again
\* (the sample met the tolerance, or the allocator has failed)
C14_RetriesBounded ==
    /\ (prog = "generate" /\ pc = "est_loop" /\ attempts >= MaxAttempts)
       => ~LoopTest(missing_time)
    /\ (prog = "combined" /\ pc = "ct_loop" /\ attempts >= MaxAttempts)
       => ~CTLoopTest(missing_time_per_cond)

\* C15: with an empty audio pool determine_timing raises and returns no
\* schedule: no timing table is built and no schedule file is loaded
C15_EmptyPoolRaises ==
    (prog = "generate" /\ audio_pool = <<>>)
    => /\ pc \in {"dt_start", "raised"}
       /\ timing_df = <<>> /\ audio_files = <<>> /\ config_df = <<>>

C15_Witness ==
    /\ prog = "generate" /\ audio_pool = <<>> /\ ttype = "Estimation"
    /\ pc = "raised"

\* C16: every Detection schedule has 16 trials, every duration 14 s and every
\* ITI 14 s, each of the 4 conditions 4 times, and no two adjacent trials of
\* the same condition
C16_DetectionSchedule ==
    (prog = "generate" /\ ttype = "Detection" /\ pc \in {"dt_assign", "dt_return"})
    => /\ Len(timing_df) = 16
       /\ \A k \in DOMAIN timing_df :
             timing_df[k].duration = 1400 /\ timing_df[k].iti = 1400
       /\ \A c \in DOMAIN TRIAL_DICT :
             Cardinality({k \in DOMAIN timing_df :
                             timing_df[k].trial_type = TRIAL_DICT[c]}) = 4
       /\ \A k \in 1..(Len(timing_df) - 1) :
             timing_df[k].trial_type # timing_df[k + 1].trial_type

C16_Witness ==
    /\ prog = "generate" /\ ttype = "Detection" /\ pc = "dt_return"
    /\ Len(timing_df) = 16
    /\ timing_df[5].trial_type # timing_df[1].trial_type

C18_SerializedTotalExact ==
    (Returned /\ ttype = "Estimation")
    => /\ \A k \in DOMAIN timing_df :
             timing_df[k].duration % 10 = 0 /\ timing_df[k].iti % 10 = 0
       /\ ReadTable(ToCsv(timing_df))
            = [k \in DOMAIN timing_df |->
                 [timing_df[k] EXCEPT !.stim_file = IF @ = None THEN NaN ELSE @]]
       /\ TotalTime(ReadTable(ToCsv(timing_df))) = TASK_TIME

C18_Witness ==
    /\ Returned /\ ttype = "Estimation"
    /\ missing_time > 0
    /\ \E d \in DurDraws :
          /\ d[1] % 10 # 0
          /\ timing_df[1].duration = Round1(d[1])
    /\ TotalTime(ReadTable(ToCsv(timing_df))) = TASK_TIME

\* C19: every trial of every generated schedule has a strictly positive
\* duration and a non-negative ITI, the last trial with the residual added
\* included; in estimation_timing every ITI but the last is within [2, 8] s
\* and the last within [2, 18] s
C19_PositiveTimes ==
    /\ Returned
       => \A k \in DOMAIN timing_df :
              timing_df[k].duration > 0 /\ timing_df[k].iti >= 0
    /\ (Returned /\ ttype = "Estimation")
       => /\ \A k \in 1..(Len(timing_df) - 1) :
                 /\ timing_df[k].iti >= ITI_RANGE[1]
                 /\ timing_df[k].iti <= ITI_RANGE[2]
          /\ Last(timing_df).iti >= ITI_RANGE[1]
          /\ Last(timing_df).iti <= ITI_RANGE[2] + ATOL
    /\ (prog = "combined" /\ pc = "ct_return")
       => \A c \in DOMAIN all_cond_trial_durs :
              /\ \A k \in DOMAIN all_cond_trial_durs[c] :
                     all_cond_trial_durs[c][k] > 0
              /\ \A k \in DOMAIN all_cond_trial_itis[c] :
                     all_cond_trial_itis[c][k] >= 0

C19_Witness ==
    /\ Returned /\ ttype = "Estimation"
    /\ missing_time > 0
    /\ Last(timing_df).iti > ITI_RANGE[2]
    /\ Last(timing_df).iti - missing_time \in possible_itis

\* the schedule file as pd.read_table reads it
ScheduleFile == ReadTable(ToCsv(timing_df))

\* the states of the trial loop of localizer_task
InTrialLoop == prog = "generate" /\ pc \in {"loc_trial", "loc_done"}

\* C20, as stated: the presentation driver treats the loaded schedule as
\* read-only and iterates it in order: trial i is presented for the duration
\* recorded for trial i in the schedule file and is followed by a rest of the
\* ITI recorded for trial i
C20_PresentedAsRecorded ==
    InTrialLoop
    => \A file \in {ScheduleFile} :
       \A i \in DOMAIN presented :
           /\ presented[i].trial_type = file[i].trial_type
           /\ presented[i].duration = file[i].duration
           /\ presented[i].iti = file[i].iti

\* C20, amended: after loading the schedule the driver permutes its duration
\* column and its iti column, each on its own, and leaves the trial_type and
\* stim_file columns as recorded; it then iterates the rows in order without
\* changing them: trial i shows the condition recorded for trial i for the
\* duration the permutation put in row i and is followed by a rest of the ITI
\* the permutation put in row i, except for the last trial, whose rest lasts
\* until the run clock reaches RUN_DURATION
C20_PresentedAsShuffled ==
    InTrialLoop
    => /\ \A file \in {ScheduleFile} :
          \A recorded \in {Elements([k \in DOMAIN file |-> file[k].duration])} :
          \A shuffled \in {Elements([k \in DOMAIN config_df |-> config_df[k].duration])} :
             /\ Len(config_df) = Len(file)
             /\ \A j \in DOMAIN config_df :
                   /\ config_df[j].trial_type = file[j].trial_type
                   /\ config_df[j].stim_file = file[j].stim_file
                   /\ config_df[j].iti = file[shuffle_idx[j]].iti
             /\ \A v \in Range(recorded) \cup Range(shuffled) :
                   Count(shuffled, v) = Count(recorded, v)
       /\ Len(presented) = trial_num - 1
       /\ \A i \in DOMAIN presented :
             /\ presented[i].trial_type = config_df[i].trial_type
             /\ presented[i].duration = config_df[i].duration
             /\ presented[i].iti = IF i = Len(config_df)
                                   THEN RUN_DURATION - presented[i].stim_end
                                   ELSE config_df[i].iti

C20_Witness ==
    /\ prog = "generate" /\ pc = "loc_done" /\ ttype = "Estimation"
    /\ Len(presented) = Len(timing_df)
    /\ \E file \in {ScheduleFile} :
       \E i \in DOMAIN presented :
          /\ presented[i].duration # file[i].duration
          /\ presented[i].iti # file[i].iti
    /\ Last(presented).iti # Last(config_df).iti

\* C21: in the schedule file main writes, a non-auditory trial has the
\* stim_file value n/a, and the file has the columns duration, iti,
\* trial_type and stim_file, with one row per trial in the order of the
\* schedule
C21_MissingStimFileWrittenNA ==
    Returned
    => \A file \in {ToCsv(timing_df)} :
          /\ Len(file) = Len(timing_df)
          /\ \A k \in DOMAIN file :
                /\ DOMAIN file[k] = {"duration", "iti", "trial_type", "stim_file"}
                /\ file[k].trial_type = timing_df[k].trial_type
                /\ (~IsAuditory(timing_df[k])) => file[k].stim_file = "n/a"

\* C23: each of the n_conds duration vectors and each of the n_conds ITI
\* vectors trial_duration_and_iti returns is a permutation of the accepted,
\* residual-corrected vector of length n_trials; every condition's total is
\* TOTAL_TIME / n_conds and the grand total is TOTAL_TIME
C23_PermutedPerCondition ==
    (prog = "combined" /\ pc = "ct_return")
    => /\ Len(all_cond_trial_durs) = ct_args.n_conds
       /\ Len(all_cond_trial_itis) = ct_args.n_conds
       /\ \A c \in 1..ct_args.n_conds :
             /\ Len(all_cond_trial_durs[c]) = ct_args.n_trials
             /\ Len(all_cond_trial_itis[c]) = ct_args.n_trials
             /\ \A v \in Range(trial_durs) \cup Range(all_cond_trial_durs[c]) :
                   Count(all_cond_trial_durs[c], v) = Count(trial_durs, v)
             /\ \A v \in Range(trial_itis) \cup Range(all_cond_trial_itis[c]) :
                   Count(all_cond_trial_itis[c], v) = Count(trial_itis, v)
             /\ (SumSeq(all_cond_trial_durs[c]) + SumSeq(all_cond_trial_itis[c]))
                    * ct_args.n_conds = TOTAL_TIME
       /\ SumSeq([c \in 1..ct_args.n_conds |->
                    SumSeq(all_cond_trial_durs[c]) + SumSeq(all_cond_trial_itis[c])])
            = TOTAL_TIME

C23_Witness ==
    /\ prog = "combined" /\ pc = "ct_return"
    /\ missing_time_per_cond # 0
    /\ \E c \in 1..ct_args.n_conds : all_cond_trial_itis[c] # trial_itis

\* C24: trial_duration_and_iti raises exactly when the requested time
\* (average(dur_range) + average(iti_range)) * n_trials * n_conds misses
\* TOTAL_TIME by more than 10 s; a deviation of exactly 10 s is accepted; when
\* it raises, no sample has been drawn and nothing is returned
C24_RaisesIffIncompatible ==
    prog = "combined"
    => /\ (pc = "raised")
          => /\ Abs(Length(ct_args) * ct_args.n_conds - TOTAL_TIME) > 10 * CT_SECOND
             /\ attempts = 0 /\ trial_durs = <<>> /\ trial_itis = <<>>
             /\ all_cond_trial_durs = <<>> /\ all_cond_trial_itis = <<>>
       /\ (pc \notin {"ct_start", "raised"})
          => Abs(Length(ct_args) * ct_args.n_conds - TOTAL_TIME) <= 10 * CT_SECOND

C24_Witness ==
    /\ prog = "combined" /\ pc = "ct_return"
    /\ Abs(Length(ct_args) * ct_args.n_conds - TOTAL_TIME) = 10 * CT_SECOND

\* C25: an Estimation schedule never has two adjacent trials of the same
\* condition either, its condition order being that of randomize_carefully
C25_EstimationNoAdjacentRepeat ==
    (prog = "generate" /\ ttype = "Estimation" /\ pc \in {"dt_assign", "dt_return"})
    => \A k \in 1..(Len(timing_df) - 1) :
           timing_df[k].trial_type # timing_df[k + 1].trial_type

C25_Witness ==
    /\ Returned /\ ttype = "Estimation"
    /\ Len(timing_df) = N_TRIALS_TOTAL
    /\ \E k \in 1..(Len(timing_df) - 2) :
          timing_df[k].trial_type = timing_df[k + 2].trial_type

\* the number of auditory trials of a schedule
AuditoryTrials(df) == Cardinality({k \in DOMAIN df : IsAuditory(df[k])})

\* C26: in determine_timing the counter c of auditory trials never reaches the
\* length of the repeated and shuffled audio list, for both run types: the
\* schedule has 30 auditory trials (Estimation) or 8 (Detection), at most
\* n_repeats * pool size, n_repeats being computed from N_TRIALS; so the
\* stim_file loop never raises
C26_AudioListLongEnough ==
    /\ (prog = "generate" /\ pc \in {"dt_assign", "dt_return"})
       => /\ AuditoryTrials(timing_df) = IF ttype = "Estimation" THEN 30 ELSE 8
          /\ AuditoryTrials(timing_df) <= Len(audio_files)
          /\ Len(audio_files)
               = CeilDiv(2 * N_TRIALS, Len(audio_pool)) * Len(audio_pool)
    /\ (prog = "generate" /\ pc = "raised")
       => (ttype \notin {"Detection", "Estimation"} \/ audio_pool = <<>>)

C26_Witness ==
    /\ Returned /\ ttype = "Detection"
    /\ AuditoryTrials(timing_df) = 8
    /\ Len(audio_files) = 42
    /\ \E k \in DOMAIN timing_df : timing_df[k].stim_file = audio_files[8]

\* C27 (the part a finite run decides): the rejection loop of
\* estimation_timing runs at least once, and the seed it returns is the
\* supplied seed plus the number of attempts, hence greater than the supplied
\* seed
C27_SeedAdvancedByAttempts ==
    (prog = "generate" /\ pc \in {"est_fill", "est_df"} /\ seed_arg # NoSeed)
    => /\ attempts >= 1
       /\ seed = seed_arg + attempts
       /\ seed > seed_arg

\* C28: the shuffle of localizer_task after loading only permutes the duration
\* column and the iti column: the multiset of durations and the multiset of
\* ITIs, hence their total, are those of the file, and the number of rows,
\* the order of trial_type and the stim_file of every row are unchanged
C28_ShuffleOnlyPermutes ==
    (prog = "generate" /\ pc = "loc_ready")
    => \A file \in {ScheduleFile} :
       \A fdur \in {Elements([k \in DOMAIN file |-> file[k].duration])} :
       \A fiti \in {Elements([k \in DOMAIN file |-> file[k].iti])} :
       \A cdur \in {Elements([k \in DOMAIN config_df |-> config_df[k].duration])} :
       \A citi \in {Elements([k \in DOMAIN config_df |-> config_df[k].iti])} :
          /\ Len(config_df) = Len(file)
          /\ \A v \in Range(fdur) \cup Range(cdur) : Count(cdur, v) = Count(fdur, v)
          /\ \A v \in Range(fiti) \cup Range(citi) : Count(citi, v) = Count(fiti, v)
          /\ TotalTime(config_df) = TotalTime(file)
          /\ \A k \in DOMAIN config_df :
                /\ config_df[k].trial_type = file[k].trial_type
                /\ config_df[k].stim_file = file[k].stim_file

C28_Witness ==
    /\ prog = "generate" /\ pc = "loc_ready" /\ ttype = "Estimation"
    /\ \E k \in DOMAIN config_df :
          /\ config_df[k].duration # timing_df[k].duration
          /\ config_df[k].iti # timing_df[k].iti
    /\ \E k \in DOMAIN config_df : config_df[k].stim_file = NaN

\* C29: in the trial loop of localizer_task only the rest of the last trial is
\* overridden: it is RUN_DURATION (450 s) minus the elapsed run-clock time, so
\* that the last rest ends when the run clock reaches 450 s; every earlier
\* trial rests for its configured ITI; when the elapsed time is already past
\* 450 s the last rest is skipped, the run neither blocking nor failing
C29_OnlyLastRestOverridden ==
    InTrialLoop
    => /\ \A i \in DOMAIN presented :
             /\ (i < Len(config_df)) => presented[i].iti = config_df[i].iti
             /\ (i < Len(presented))
                => /\ data_set["onset"][i + 1]
                        >= presented[i].stim_end + config_df[i].iti
                   /\ data_set["onset"][i + 1]
                        <= presented[i].stim_end + config_df[i].iti + frame_lag
             /\ (i = Len(config_df))
                => presented[i].iti = RUN_DURATION - presented[i].stim_end
       /\ (pc = "loc_done")
          => /\ Len(presented) = Len(config_df)
             /\ IF Last(presented).stim_end < RUN_DURATION
                THEN /\ routine_clock >= RUN_DURATION
                     /\ routine_clock <= RUN_DURATION + frame_lag
                ELSE routine_clock = Last(presented).stim_end

C29_Witness ==
    /\ prog = "generate" /\ pc = "loc_done"
    /\ Last(presented).iti < 0
    /\ routine_clock = Last(presented).stim_end
    /\ routine_clock > RUN_DURATION

\* C22: the tap_count logged for a trial is the number of presses of '1' or
\* '2' made within the stimulus period of the trial and the rest that follows
\* it, however the presses interleave with the polling loops
C22_TapCountCountsEveryPress ==
    prog = "polling"
    => \A k \in DOMAIN pressed_hist :
           k \in DOMAIN data_set["tap_count"]
           => data_set["tap_count"][k] = pressed_hist[k]

\* the file holds one row for each of the first k logged trials and no other
\* row, each with the values logged for its trial
HoldsRows(file, ds, k) ==
    /\ Len(file) = k
    /\ \A i \in 1..k :
          /\ file[i].onset = Format2(ds["onset"][i])
          /\ file[i].duration = Format2(ds["duration"][i])
          /\ file[i].trial_type = ds["trial_type"][i]
          /\ file[i].response_time = FormatTime(ds["response_time"][i])
          /\ file[i].tap_count = ds["tap_count"][i]
          /\ file[i].tap_duration = FormatTime(ds["tap_duration"][i])
          /\ file[i].stim_file = ds["stim_file"][i]

\* C30 (as stated): after k completed trials every column has length k, and
\* when the run is aborted with escape the output file holds exactly the rows
\* of the k trials completed so far
C30_FileHoldsCompletedTrials ==
    prog = "polling"
    => \A k \in {trial_num - 1} :
           /\ (pc \in {"tr_begin", "poll_done"})
              => \A c \in Range(COLUMNS) : Len(data_set[c]) = k
           /\ (pc = "quit") => HoldsRows(outfile, data_set, k)

\* C30 (amended): after k completed trials every column has length k, and
\* within a trial k or k + 1; once a trial has been completed the output file
\* holds exactly the rows of the k trials completed so far, at every moment
\* and so whenever the run is aborted with escape; until the first trial is
\* completed nothing is written, so that the file is absent or holds what an
\* earlier run left
C30_FileHoldsCompletedTrialsOnceWritten ==
    prog = "polling"
    => \A k \in {trial_num - 1} :
           /\ \A c \in Range(COLUMNS) : Len(data_set[c]) \in {k, k + 1}
           /\ (pc \in {"tr_begin", "poll_done"})
              => \A c \in Range(COLUMNS) : Len(data_set[c]) = k
           /\ (k >= 1) => HoldsRows(outfile, data_set, k)
           /\ (k = 0) => outfile \in EarlierFiles

C30_Witness ==
    /\ prog = "polling" /\ pc = "quit"
    /\ trial_num = 2
    /\ Len(outfile) = 1
    /\ Len(data_set["onset"]) = 2
    /\ Len(data_set["tap_count"]) = 1

=============================================================================
